---- MODULE Spec2Model ----
(***************************************************************************)
(* Model of src/pages/api/ens/resolve/[address].ts: the ENS resolve API    *)
(* route.  One request is followed from the entry of handler to its        *)
(* response and beyond, while the promises of the ethers provider (the     *)
(* authoritative calls) and of the viem client (the shadow calls) settle   *)
(* in any order.  Strings are sequences of one-character strings.          *)
(***************************************************************************)
EXTENDS Naturals, Sequences, FiniteSets

VARIABLES req, pc, ethers, viem, local, caught, res, sent, unhandled, warned

vars == <<req, pc, ethers, viem, local, caught, res, sent, unhandled, warned>>

----------------------------------------------------------------------------
(* JavaScript values *)

Null == <<"<null>">>
Undefined == <<"<undefined>">>

\* JavaScript truthiness of a string | null | undefined value
Truthy(v) == v # Null /\ v # Undefined /\ v # <<>>

----------------------------------------------------------------------------
(* Strings *)

UpperChars == <<"A","B","C","D","E","F","H","P","T","X","Y">>
LowerChars == <<"a","b","c","d","e","f","h","p","t","x","y">>
HexDigits == {"0","1","2","3","4","5","6","7","8","9"}
HexLetters == {"a","b","c","d","e","f"}

lowerChar(c) ==
  IF \E i \in 1..Len(UpperChars) : UpperChars[i] = c
  THEN LowerChars[CHOOSE i \in 1..Len(UpperChars) : UpperChars[i] = c]
  ELSE c

upperChar(c) ==
  IF \E i \in 1..Len(LowerChars) : LowerChars[i] = c
  THEN UpperChars[CHOOSE i \in 1..Len(LowerChars) : LowerChars[i] = c]
  ELSE c

\* String.prototype.toLowerCase
toLowerCase(s) == [i \in 1..Len(s) |-> lowerChar(s[i])]

\* index of the first character of s that is in set, 0 when there is none
IndexOf(s, set) ==
  IF \E i \in 1..Len(s) : s[i] \in set
  THEN CHOOSE i \in 1..Len(s) : s[i] \in set /\ \A j \in 1..(i-1) : s[j] \notin set
  ELSE 0

\* index of the last character of s that is in set, 0 when there is none
LastIndexOf(s, set) ==
  IF \E i \in 1..Len(s) : s[i] \in set
  THEN CHOOSE i \in 1..Len(s) : s[i] \in set /\ \A j \in (i+1)..Len(s) : s[j] \notin set
  ELSE 0

\* the path percent-encode set of the URL parser, on the characters modelled
percentEncodeChar(c) == IF c = " " THEN <<"%","2","0">> ELSE <<c>>

RECURSIVE percentEncode(_)
percentEncode(s) ==
  IF s = <<>> THEN <<>> ELSE percentEncodeChar(Head(s)) \o percentEncode(Tail(s))

----------------------------------------------------------------------------
(* firstParam and resolve *)

\* a route parameter is a string or an array of strings
StringParam(s) == [isArray |-> FALSE, value |-> s, items |-> <<>>]
ArrayParam(a) == [isArray |-> TRUE, value |-> <<>>, items |-> a]

firstParam(param) == IF param.isArray THEN param.items[1] ELSE param.value

\* the pathname, search and hash of a URL reference; search and hash keep
\* their "?" and "#", and are empty when nothing follows the delimiter
ParseUrl(s) ==
  LET h == IndexOf(s, {"#"})
      beforeHash == IF h = 0 THEN s ELSE SubSeq(s, 1, h - 1)
      rawHash == IF h = 0 THEN <<>> ELSE SubSeq(s, h, Len(s))
      q == IndexOf(beforeHash, {"?"})
      rawSearch == IF q = 0 THEN <<>> ELSE SubSeq(beforeHash, q, Len(beforeHash))
  IN [pathname |-> IF q = 0 THEN beforeHash ELSE SubSeq(beforeHash, 1, q - 1),
      search |-> IF Len(rawSearch) = 1 THEN <<>> ELSE rawSearch,
      hash |-> IF Len(rawHash) = 1 THEN <<>> ELSE rawHash,
      hasQuery |-> q # 0]

SchemeChars == {LowerChars[i] : i \in 1..Len(LowerChars)} \cup HexDigits \cup {"+", "-", "."}

\* the reference starts with a scheme, so the URL parser takes it as absolute
HasScheme(to) ==
  LET c == IndexOf(to, {":"})
  IN /\ c > 1
     /\ lowerChar(to[1]) \in {LowerChars[i] : i \in 1..Len(LowerChars)}
     /\ \A j \in 1..(c-1) : lowerChar(to[j]) \in SchemeChars

\* new URL(to, new URL(from, "resolve://")), printed without the resolve:
\* scheme; from is an absolute path, the segments modelled are never "." or ".."
resolve(from, to) ==
  LET base == ParseUrl(from)
      ref == ParseUrl(to)
      slash == LastIndexOf(base.pathname, {"/"})
      pathname == IF ref.pathname = <<>> THEN base.pathname
                  ELSE IF ref.pathname[1] = "/" THEN percentEncode(ref.pathname)
                  ELSE SubSeq(base.pathname, 1, slash) \o percentEncode(ref.pathname)
      search == IF ref.pathname = <<>> /\ ~ref.hasQuery THEN base.search ELSE ref.search
  IN IF HasScheme(to) THEN to ELSE pathname \o search \o ref.hash

----------------------------------------------------------------------------
(* Addresses and names (viem) *)

RoutePrefix == <<"/","a","p","i","/","e","n","s","/","r","e","s","o","l","v","e","/">>
LowerAddress == <<"0","x","d","8","d","a","6","b","f","2","6","9","6","4","a","f","9","d","7","e","e","d","9","e","0","3","e","5","3","4","1","5","d","3","7","a","a","9","6","0","4","5">>
MixedAddress == <<"0","x","d","8","d","A","6","B","F","2","6","9","6","4","a","F","9","D","7","e","E","d","9","e","0","3","E","5","3","4","1","5","D","3","7","a","A","9","6","0","4","5">>

\* number of hex characters of an address
AddressHexLen == 40

\* viem isAddress on a lower-case string: /^0x[a-fA-F0-9]{40}$/
isAddress(s) ==
  /\ Len(s) = 2 + AddressHexLen
  /\ s[1] = "0" /\ s[2] = "x"
  /\ \A i \in 3..Len(s) : lowerChar(s[i]) \in HexDigits \cup HexLetters

\* the positions of the hex characters whose nibble of keccak256(address) is
\* 8 or more, for the letters of the address modelled
KeccakHighNibbles(a) == {i \in 3..Len(a) : a = LowerAddress /\ MixedAddress[i] # LowerAddress[i]}

\* viem getAddress: the EIP-55 checksum form
getAddress(a) ==
  [i \in 1..Len(a) |-> IF i \in KeccakHighNibbles(a) THEN upperChar(a[i]) ELSE a[i]]

\* address.replace(/^(0x[0-9A-F]{3})[0-9A-F]+([0-9A-F]{4})$/i, "$1...$2")
elide(address) ==
  IF /\ Len(address) >= 2 + 3 + 1 + 4
     /\ address[1] = "0" /\ address[2] = "x"
     /\ \A i \in 3..Len(address) : lowerChar(address[i]) \in HexDigits \cup HexLetters
  THEN SubSeq(address, 1, 5) \o <<"...">> \o SubSeq(address, Len(address) - 3, Len(address))
  ELSE address

\* characters that ENS normalization rejects, among those modelled
DisallowedChars == {" ", ":", "?", "#", "/"}

\* viem normalize throws on a name with a disallowed character
normalizeThrows(name) == \E i \in 1..Len(name) : name[i] \in DisallowedChars

\* the message of the error normalize throws
NormalizeMessage == <<"d","i","s","a","l","l","o","w","e","d">>

----------------------------------------------------------------------------
(* Promises of the two clients *)

EthersCalls == {"lookupAddress", "resolveName", "getAvatar"}
ViemCalls == {"getEnsName", "getEnsAddress", "getEnsAvatar"}

\* the viem call that getEnsName, getEnsAddress, getEnsAvatar pair with the ethers call
Shadow(call) ==
  CASE call = "lookupAddress" -> "getEnsName"
    [] call = "resolveName" -> "getEnsAddress"
    [] call = "getAvatar" -> "getEnsAvatar"

NotIssued == [state |-> "none", value |-> Undefined, handled |-> FALSE]

\* a promise in flight; handled: Promise.allSettled has subscribed to it
Pending(attached) == [state |-> "pending", value |-> Undefined, handled |-> attached]

\* JSON.stringify of an allSettled result: an Error reason prints as {}
SettledJson(p) ==
  [status |-> p.state, value |-> IF p.state = "fulfilled" THEN p.value ELSE <<"{","}">>]

\* the .then callback of Promise.allSettled: runs once both promises have
\* settled and warns when the two results differ
Inconsistent(E, V, call) ==
  /\ E[call].handled
  /\ E[call].state \in {"fulfilled", "rejected"}
  /\ V[Shadow(call)].state \in {"fulfilled", "rejected"}
  /\ SettledJson(E[call]) # SettledJson(V[Shadow(call)])

\* the promise an async wrapper returns: rejected by the throw of normalize
\* before allSettled subscribes, the ethers promise otherwise
Wrapper(E, call) ==
  IF E[call].state # "none" /\ ~E[call].handled
  THEN [state |-> "rejected", value |-> NormalizeMessage, handled |-> TRUE]
  ELSE E[call]

\* Promise.all taken for Promise.race: settled as soon as one wrapper is
PromiseAllRace(w1, w2) ==
  [state |-> IF w1.state = "rejected" \/ w2.state = "rejected" THEN "rejected"
             ELSE IF w1.state = "fulfilled" \/ w2.state = "fulfilled" THEN "fulfilled"
             ELSE "pending",
   reason |-> IF w1.state = "rejected" THEN w1.value ELSE w2.value,
   first |-> w1.value,
   second |-> w2.value]

\* Promise.all of the name path, as seen in the turn a wrapper settles
PromiseAll(w1, w2) ==
  [state |-> IF w1.state = "rejected" \/ w2.state = "rejected" THEN "rejected"
             ELSE IF w1.state = "fulfilled" /\ w2.state = "fulfilled" THEN "fulfilled"
             ELSE "pending",
   reason |-> IF w1.state = "rejected" THEN w1.value ELSE w2.value,
   first |-> w1.value,
   second |-> w2.value]

----------------------------------------------------------------------------
(* Results and responses *)

NoError == <<"<none>">>

EmptyBody == [address |-> Undefined, name |-> Undefined, displayName |-> Undefined,
              avatar |-> Undefined, error |-> Undefined]

NoHeader == "none"
CdnCacheControl == "s-maxage=86400, stale-while-revalidate"

NoResponse == [status |-> 0, location |-> Null, cacheControl |-> NoHeader, body |-> EmptyBody]

\* resolveAddress returning without the assignment displayName = name
resolveAddressReturnElided(address, name, displayName, avatar) ==
  [address |-> address, name |-> name, displayName |-> elide(address),
   avatar |-> avatar, error |-> Undefined]

\* resolveAddress, the return of the try block
resolveAddressReturn(address, name, displayName, avatar) ==
  [address |-> address, name |-> name, displayName |-> displayName,
   avatar |-> avatar, error |-> Undefined]

\* resolveAddress, the catch block; error is the message of the value caught
resolveAddressCatch(address, displayName, error) ==
  [address |-> address, name |-> Null, displayName |-> displayName,
   avatar |-> Null, error |-> error]

\* resolveName returning the resolved address as the display name
resolveNameReturnAddress(name, address, avatar) ==
  [address |-> address, name |-> name, displayName |-> address,
   avatar |-> avatar, error |-> Undefined]

\* resolveName, the return of the try block
resolveNameReturn(name, address, avatar) ==
  [address |-> address, name |-> name, displayName |-> name,
   avatar |-> avatar, error |-> Undefined]

\* resolveName, the catch block
resolveNameCatch(name, error) ==
  [address |-> Null, name |-> name, displayName |-> name,
   avatar |-> Null, error |-> error]

\* res.redirect(status, url)
redirect(status, url) ==
  [status |-> status, location |-> url, cacheControl |-> NoHeader, body |-> EmptyBody]

\* the end of handler: 500 when data.error is truthy, 200 with the CDN
\* header otherwise; JSON drops an undefined error
respond(data) ==
  IF Truthy(data.error)
  THEN [status |-> 500, location |-> Null, cacheControl |-> NoHeader, body |-> data]
  ELSE [status |-> 200, location |-> Null, cacheControl |-> CdnCacheControl, body |-> data]

----------------------------------------------------------------------------
(* Requests and the outcomes of the external calls *)

NameLower == <<"a",".","e","t","h">>
NameUpper == <<"A",".","e","t","h">>
NameBad == <<"a"," ","b">>
NameBadUpper == <<"A"," ","b">>
SchemeSegment == <<"X",":","y">>
QuerySuffix == <<"?","x","=","1">>
AvatarUrl == <<"i","p","f","s",":","/","/","Q","m">>
Boom == <<"b","o","o","m">>

\* the path segments requested, as the router decodes them
Segments == {LowerAddress, MixedAddress, NameLower, NameUpper, NameBad, NameBadUpper, SchemeSegment}

\* what follows the segment in the request URL
Suffixes == {<<>>, QuerySuffix}

\* the request of a client for segment s: the URL carries s percent-encoded
Request(s, suffix) ==
  [url |-> RoutePrefix \o percentEncode(s) \o suffix,
   query |-> [address |-> StringParam(s)]]

\* the message property of the value a provider call rejects with
ErrorMessages == {Boom, <<>>, Undefined}

\* the values a call fulfils with
Values(call) ==
  CASE call \in {"lookupAddress", "getEnsName"} -> {Null, NameLower, NameBad}
    [] call \in {"resolveName", "getEnsAddress"} -> {Null, MixedAddress}
    [] call \in {"getAvatar", "getEnsAvatar"} -> {Null, AvatarUrl}

EthersOutcomes(call) ==
  [state : {"fulfilled"}, value : Values(call)] \cup [state : {"rejected"}, value : ErrorMessages]

ViemOutcomes(call) ==
  [state : {"fulfilled"}, value : Values(call)] \cup [state : {"rejected"}, value : {Boom}]

----------------------------------------------------------------------------
(* The handler *)

Init ==
  /\ req \in {Request(s, suffix) : s \in Segments, suffix \in Suffixes}
  /\ pc = "start"
  /\ ethers = [c \in EthersCalls |-> NotIssued]
  /\ viem = [c \in ViemCalls |-> NotIssued]
  /\ local = [address |-> Undefined, name |-> Undefined, displayName |-> Undefined]
  /\ caught = NoError
  /\ res = NoResponse
  /\ sent = 0
  /\ unhandled = {}
  /\ warned = {}

\* one of getEnsName, getEnsAddress, getEnsAvatar is entered: the ethers call
\* is issued; the viem call is issued and allSettled subscribes unless the
\* argument of the viem call throws
IssueEthers(E, call, throws) == [E EXCEPT ![call] = Pending(~throws)]
IssueViem(V, call, throws) == IF throws THEN V ELSE [V EXCEPT ![Shadow(call)] = Pending(TRUE)]

\* handler sends the result of the resolver; error is what the catch block
\* caught, NoError on the return of the try block
Finish(data, error) ==
  /\ res' = respond(data)
  /\ sent' = sent + 1
  /\ caught' = error
  /\ pc' = "done"

\* resolveAddress up to the first await
resolveAddressStart(lowercaseAddress) ==
  LET address == getAddress(lowercaseAddress)
  IN /\ local' = [address |-> address, name |-> Undefined, displayName |-> elide(address)]
     /\ ethers' = IssueEthers(ethers, "lookupAddress", FALSE)
     /\ viem' = IssueViem(viem, "lookupAddress", FALSE)
     /\ pc' = "awaitName"
     /\ UNCHANGED <<caught, res, sent>>

\* resolveAddress resumed after await getEnsName, up to the next await or to
\* the response
resolveAddressAfterName(E) ==
  LET w == Wrapper(E, "lookupAddress")
      name == w.value
      throws == normalizeThrows(name)
  IN IF w.state = "rejected"
     THEN /\ Finish(resolveAddressCatch(local.address, local.displayName, w.value), w.value)
          /\ ethers' = E
          /\ UNCHANGED <<viem, local>>
     ELSE IF Truthy(name)
     THEN /\ local' = [local EXCEPT !.name = name, !.displayName = name]
          /\ ethers' = IssueEthers(E, "getAvatar", throws)
          /\ viem' = IssueViem(viem, "getAvatar", throws)
          /\ IF throws
             THEN Finish(resolveAddressCatch(local.address, name, NormalizeMessage), NormalizeMessage)
             ELSE /\ pc' = "awaitAvatar"
                  /\ UNCHANGED <<caught, res, sent>>
     ELSE /\ Finish(resolveAddressReturn(local.address, name, local.displayName, Null), NoError)
          /\ local' = [local EXCEPT !.name = name]
          /\ ethers' = E
          /\ UNCHANGED viem

\* resolveAddress resumed after await getEnsAvatar
resolveAddressAfterAvatar(E) ==
  LET w == Wrapper(E, "getAvatar")
  IN /\ IF w.state = "rejected"
        THEN Finish(resolveAddressCatch(local.address, local.displayName, w.value), w.value)
        ELSE Finish(resolveAddressReturn(local.address, local.name, local.displayName, w.value), NoError)
     /\ ethers' = E
     /\ UNCHANGED <<viem, local>>

\* resolveName resumed when Promise.all may have settled
resolveNameAfterAll(E, name) ==
  LET all == PromiseAll(Wrapper(E, "resolveName"), Wrapper(E, "getAvatar"))
  IN CASE all.state = "rejected" -> Finish(resolveNameCatch(name, all.reason), all.reason)
       [] all.state = "fulfilled" -> Finish(resolveNameReturn(name, all.first, all.second), NoError)
       [] OTHER -> /\ pc' = "awaitAll"
                   /\ UNCHANGED <<caught, res, sent>>

\* resolveName up to await Promise.all, and past it when normalize threw
resolveNameStart(name) ==
  LET throws == normalizeThrows(name)
      E == IssueEthers(IssueEthers(ethers, "resolveName", throws), "getAvatar", throws)
  IN /\ local' = [address |-> Undefined, name |-> name, displayName |-> name]
     /\ ethers' = E
     /\ viem' = IssueViem(IssueViem(viem, "resolveName", throws), "getAvatar", throws)
     /\ resolveNameAfterAll(E, name)

\* the entry of handler, up to the redirect or to the first await
handler ==
  /\ pc = "start"
  /\ LET inputAddress == firstParam(req.query.address)
         lowercaseAddress == toLowerCase(inputAddress)
     IN IF inputAddress # lowercaseAddress
        THEN /\ res' = redirect(307, resolve(req.url, lowercaseAddress))
             /\ sent' = sent + 1
             /\ pc' = "done"
             /\ UNCHANGED <<ethers, viem, local, caught>>
        ELSE IF isAddress(lowercaseAddress)
        THEN resolveAddressStart(lowercaseAddress)
        ELSE resolveNameStart(lowercaseAddress)
  /\ UNCHANGED <<req, unhandled, warned>>

\* an ethers promise settles; the turn runs the allSettled callback and
\* resumes the resolver that awaits the promise
SettleEthers(call, outcome) ==
  /\ ethers[call].state = "pending"
  /\ LET E == [ethers EXCEPT ![call].state = outcome.state, ![call].value = outcome.value]
     IN /\ unhandled' = IF outcome.state = "rejected" /\ ~ethers[call].handled
                        THEN unhandled \cup {call} ELSE unhandled
        /\ warned' = IF Inconsistent(E, viem, call) THEN warned \cup {call} ELSE warned
        /\ CASE pc = "awaitName" /\ call = "lookupAddress" -> resolveAddressAfterName(E)
             [] pc = "awaitAvatar" /\ call = "getAvatar" -> resolveAddressAfterAvatar(E)
             [] pc = "awaitAll" -> /\ resolveNameAfterAll(E, local.name)
                                   /\ ethers' = E
                                   /\ UNCHANGED <<viem, local>>
             [] OTHER -> /\ ethers' = E
                         /\ UNCHANGED <<viem, local, pc, caught, res, sent>>
  /\ UNCHANGED req

\* a viem promise settles; the turn runs the allSettled callback
SettleViem(call, outcome) ==
  /\ viem[Shadow(call)].state = "pending"
  /\ viem' = [viem EXCEPT ![Shadow(call)].state = outcome.state, ![Shadow(call)].value = outcome.value]
  /\ warned' = IF Inconsistent(ethers, viem', call) THEN warned \cup {call} ELSE warned
  /\ UNCHANGED <<req, pc, ethers, local, caught, res, sent, unhandled>>

Next ==
  \/ handler
  \/ \E call \in EthersCalls : \E outcome \in EthersOutcomes(call) : SettleEthers(call, outcome)
  \/ \E call \in EthersCalls : \E outcome \in ViemOutcomes(call) : SettleViem(call, outcome)

Spec == Init /\ [][Next]_vars

----------------------------------------------------------------------------
(* The request under way *)

Segment == firstParam(req.query.address)
Redirected == Segment # toLowerCase(Segment)
AddressPath == ~Redirected /\ isAddress(Segment)
NamePath == ~Redirected /\ ~isAddress(Segment)

\* what follows the segment in the request URL
UrlRest == SubSeq(req.url, Len(RoutePrefix) + Len(percentEncode(Segment)) + 1, Len(req.url))

\* the request URL with the segment replaced by its lower-case form
LoweredUrl == RoutePrefix \o percentEncode(toLowerCase(Segment)) \o UrlRest

NoLookupIssued == /\ \A c \in EthersCalls : ethers[c].state = "none"
                  /\ \A c \in ViemCalls : viem[c].state = "none"

IsInfix(sub, s) ==
  \E i \in 0..Len(s) : i + Len(sub) <= Len(s) /\ SubSeq(s, i + 1, i + Len(sub)) = sub

----------------------------------------------------------------------------
(* Properties *)

\* C1: a request whose segment differs from its lower-case form gets a 307
\* whose Location is the request URL with the segment lower-cased, the query
\* string and the fragment kept, and no lookup is issued for it.
C1_RedirectKeepsQuery ==
  (Redirected /\ pc = "done") =>
    /\ res.status = 307
    /\ res.location = LoweredUrl
    /\ NoLookupIssued

\* C2: when a provider call of a non-redirected request has failed and the
\* resolver caught it, the response is a 500 whose error is a non-empty
\* string, whatever the message of the error.
C2_FailureIs500 ==
  (pc = "done" /\ ~Redirected /\ caught # NoError
     /\ \E c \in EthersCalls : ethers[c].state = "rejected" /\ ethers[c].handled) =>
    /\ res.status = 500
    /\ Truthy(res.body.error)

C5_AddressFailure ==
  (AddressPath /\ pc = "done" /\ caught # NoError) =>
    /\ res.body.address = getAddress(Segment)
    /\ res.body.name = Null
    /\ res.body.avatar = Null
    /\ res.body.displayName = elide(getAddress(Segment))
    /\ Truthy(res.body.error)

\* C6: a lookup that completes with null is a success: 200, no error field
\* and the counterpart null, for an address whose reverse lookup returned
\* null and for a name whose forward lookup returned null while no provider
\* call failed.
C6_NullIsSuccess ==
  /\ (AddressPath /\ pc = "done" /\ ethers["lookupAddress"].state = "fulfilled"
        /\ ethers["lookupAddress"].value = Null) =>
       /\ res.status = 200
       /\ res.body.error = Undefined
       /\ res.body.name = Null
  /\ (NamePath /\ pc = "done" /\ ethers["resolveName"].state = "fulfilled"
        /\ ethers["resolveName"].value = Null
        /\ ethers["getAvatar"].state = "fulfilled"
        /\ \A c \in ViemCalls : viem[c].state # "rejected") =>
       /\ res.status = 200
       /\ res.body.error = Undefined
       /\ res.body.address = Null

\* C7: the CDN cache header is sent exactly with status 200, status 200 is
\* sent exactly when the result has no error field, a result with an error
\* goes out as a 500 without the header, and a redirect has no header.
C7_CacheHeaderIffSuccess ==
  pc = "done" =>
    /\ res.cacheControl = CdnCacheControl <=> res.status = 200
    /\ res.status = 200 <=> (~Redirected /\ res.body.error = Undefined)
    /\ res.body.error # Undefined => (res.status = 500 /\ res.cacheControl = NoHeader)
    /\ Redirected => (res.status = 307 /\ res.cacheControl = NoHeader)

\* C8: the shadow path never affects the response: an error result comes
\* from an authoritative call that failed, and the handler never waits for
\* anything but an authoritative call.
C8_ShadowNeverAffects ==
  /\ (pc = "done" /\ ~Redirected /\ caught # NoError) =>
       \E c \in EthersCalls : ethers[c].state = "rejected" /\ ethers[c].value = caught
  /\ pc \in {"awaitName", "awaitAvatar", "awaitAll"} =>
       \E c \in EthersCalls : ethers[c].state = "pending"

\* C9: no rejection stays unhandled and the caller always gets a structured
\* result.
C9_NothingEscapes ==
  /\ unhandled = {}
  /\ pc = "done" => (sent = 1 /\ res.status \in {200, 307, 500})

\* C10 as stated: a non-redirected request gets exactly one response, sent
\* while no authoritative lookup of the request is pending.
C10_RespondsAfterAllLookups ==
  (~Redirected /\ pc = "done") =>
    /\ sent = 1
    /\ \A c \in EthersCalls : ethers[c].state # "pending"

\* C10 as amended: a non-redirected request gets exactly one response; the
\* result of the try block is sent only after every authoritative lookup
\* issued has completed, and a response sent while a lookup is pending is the
\* result of the catch block, sent after a call of the request has failed.
C10_RespondsAfterAllOrFailure ==
  /\ sent <= 1
  /\ pc = "done" <=> sent = 1
  /\ (~Redirected /\ pc = "done" /\ caught = NoError) =>
       \A c \in EthersCalls : ethers[c].state \in {"none", "fulfilled"}
  /\ (~Redirected /\ pc = "done" /\ \E c \in EthersCalls : ethers[c].state = "pending") =>
       caught # NoError

C10_Witness ==
  /\ NamePath /\ sent = 1 /\ caught = Boom
  /\ ethers["resolveName"].state = "rejected"
  /\ ethers["getAvatar"].state = "pending"

====
